---- MODULE Spec2Model ----
(***************************************************************************)
(* Model of langroid/parsing/json.py: extraction, repair and validation of *)
(* JSON objects embedded in free text.                                     *)
(*                                                                         *)
(* Texts are sequences of one-character strings.  Offsets are 1-based; a   *)
(* span <<b, e>> covers the characters b .. e-1.  An operator that looks   *)
(* for a match returns the offset just past the match, or 0 for no match.  *)
(***************************************************************************)
EXTENDS Integers, Sequences, FiniteSets, TLC

VARIABLES text,        \* the argument s of the call
          nfrag,       \* number of fragments the text was built from
          field,       \* the argument f of top_level_json_field
          budget,      \* interpreter stack frames left for nested JSON values
          pc,          \* "input" while the arguments are built, then "done"
          op,          \* the function that was called
          spans,       \* offsets of the matches found by searchString
          candidates,  \* json_candidates
          normalized,  \* normalized_candidates
          repaired,    \* candidates (after replace_undefined)
          jsons,       \* top_level_jsons, the value extract_top_level_json returns
          ret,         \* the value the called function returns
          raised       \* the exception that left the called function, or "none"

vars == <<text, nfrag, field, budget, pc, op, spans, candidates, normalized,
          repaired, jsons, ret, raised>>

----------------------------------------------------------------------------
(* Bounds of the model: the number of fragments a text is built from in    *)
(* each specification, and the recursion limit of the specification that   *)
(* explores nesting beyond it.                                             *)

MaxScanFrags == 5
MaxNormLen == 5
MaxRepairFrags == 4
MaxExtractFrags == 4
MaxQuoteFrags == 4
MaxFieldFrags == 4
MaxDeepFrags == 5

\* stands for sys.getrecursionlimit() where texts nest deeper than the limit:
\* the limit is scaled to the size of the texts the model builds
StackFrames == 3

----------------------------------------------------------------------------
(* Characters.                                                             *)

\* pyparsing ParserElement.DEFAULT_WHITE_CHARS
WhiteChars == {" ", "\n", "\t", "\r"}

HexDigits == {"0", "1", "2", "3", "4", "5", "6", "7", "8", "9",
              "a", "b", "c", "d", "e", "f", "A", "B", "C", "D", "E", "F"}

----------------------------------------------------------------------------
(* get_json_candidates: originalTextFor(nestedExpr("{", "}")).searchString *)

RECURSIVE HexRun(_, _)
\* [0-9a-fA-F]* from offset j: the offset just past the run
HexRun(s, j) ==
    IF j <= Len(s) /\ s[j] \in HexDigits THEN HexRun(s, j + 1) ELSE j

RECURSIVE QuotedBody(_, _, _)
\* the body of pyparsing's quoted_string regex, taken greedily from offset j:
\*   (?:[^q\n\r\\]|(?:qq)|(?:\\(?:[^x]|x[0-9a-fA-F]+)))*
QuotedBody(s, j, q) ==
    IF j <= Len(s) /\ s[j] \notin {q, "\n", "\r", "\\"}
      THEN QuotedBody(s, j + 1, q)
    ELSE IF j + 1 <= Len(s) /\ s[j] = q /\ s[j + 1] = q
      THEN QuotedBody(s, j + 2, q)
    ELSE IF j + 1 <= Len(s) /\ s[j] = "\\" /\ s[j + 1] # "x"
      THEN QuotedBody(s, j + 2, q)
    ELSE IF j + 2 <= Len(s) /\ s[j] = "\\" /\ s[j + 1] = "x" /\ s[j + 2] \in HexDigits
      THEN QuotedBody(s, HexRun(s, j + 3), q)
    ELSE j

\* mutant: no quoted string is recognised (ignoreExpr = None)
QuotedEndNever(s, i) == 0

\* quoted_string at offset i (no whitespace skipped): the regex body, then the
\* closing quote, which the regex is not re-entered to find
QuotedEnd(s, i) ==
    IF i <= Len(s) /\ s[i] \in {"\"", "'"}
      THEN LET j == QuotedBody(s, i + 1, s[i])
           IN  IF j <= Len(s) /\ s[j] = s[i] THEN j + 1 ELSE 0
      ELSE 0

RECURSIVE SkipWhite(_, _)
SkipWhite(s, i) ==
    IF i <= Len(s) /\ s[i] \in WhiteChars THEN SkipWhite(s, i + 1) ELSE i

RECURSIVE NestedEnd(_, _)
RECURSIVE NestedItemsMissingCloser(_, _)
RECURSIVE NestedItems(_, _)

\* mutant: the end of the text is accepted in place of the closing brace
NestedItemsMissingCloser(s, j) ==
    LET j0 == SkipWhite(s, j) IN
    IF j0 > Len(s) THEN j0
    ELSE IF QuotedEnd(s, j0) # 0 THEN NestedItemsMissingCloser(s, QuotedEnd(s, j0))
    ELSE IF s[j0] = "{"
      THEN LET e == NestedEnd(s, j0)
           IN  IF e = 0 THEN 0 ELSE NestedItemsMissingCloser(s, e)
    ELSE IF s[j0] = "}" THEN j0 + 1
    ELSE NestedItemsMissingCloser(s, j0 + 1)

\* ZeroOrMore(ignoreExpr | ret | content) + Suppress("}") from offset j: each
\* item skips whitespace, a quoted string is taken whole, "{" must start a
\* nested expression, any other character but "}" is content
NestedItems(s, j) ==
    LET j0 == SkipWhite(s, j) IN
    IF j0 > Len(s) THEN 0
    ELSE IF QuotedEnd(s, j0) # 0 THEN NestedItems(s, QuotedEnd(s, j0))
    ELSE IF s[j0] = "{"
      THEN LET e == NestedEnd(s, j0)
           IN  IF e = 0 THEN 0 ELSE NestedItems(s, e)
    ELSE IF s[j0] = "}" THEN j0 + 1
    ELSE NestedItems(s, j0 + 1)

\* nestedExpr("{", "}") at offset i, which holds the first non-blank character
NestedEnd(s, i) ==
    IF i <= Len(s) /\ s[i] = "{" THEN NestedItems(s, i + 1) ELSE 0

RECURSIVE ScanStringOverlap(_, _)
RECURSIVE ScanString(_, _)

\* mutant: after a match the search resumes one character on, inside the match
ScanStringOverlap(s, loc) ==
    LET pre == SkipWhite(s, loc) IN
    IF pre > Len(s) THEN <<>>
    ELSE LET e == NestedEnd(s, pre)
         IN  IF e = 0 THEN ScanStringOverlap(s, pre + 1)
             ELSE <<(<<pre, e>>)>> \o ScanStringOverlap(s, pre + 1)

\* searchString from offset loc: the matches in document order; a failed
\* attempt moves one character on, a match moves past the match
ScanString(s, loc) ==
    LET pre == SkipWhite(s, loc) IN
    IF pre > Len(s) THEN <<>>
    ELSE LET e == NestedEnd(s, pre)
         IN  IF e = 0 THEN ScanString(s, pre + 1)
             ELSE <<(<<pre, e>>)>> \o ScanString(s, e)

SpanText(s, sp) == SubSeq(s, sp[1], sp[2] - 1)

\* originalTextFor: the text each match covers
SpanTexts(s, found) == [k \in 1 .. Len(found) |-> SpanText(s, found[k])]

get_json_candidates(s) == SpanTexts(s, ScanString(s, 1))

----------------------------------------------------------------------------
(* json.loads, as is_valid_json and top_level_json_field use it.           *)
(* A JSON value is a record: t the type, n the value of an integer, s the  *)
(* characters of a string (or the lexeme of a non-integer number), m the   *)
(* members of an object as <<key, value>> pairs in insertion order, or the *)
(* elements of an array as << <<>>, value >> pairs.                        *)

JValue(t, n, s, m) == [t |-> t, n |-> n, s |-> s, m |-> m]
JNull == JValue("null", 0, <<>>, <<>>)
JTrue == JValue("true", 0, <<>>, <<>>)
JFalse == JValue("false", 0, <<>>, <<>>)
JInt(n) == JValue("int", n, <<>>, <<>>)
JFloat(lexeme) == JValue("float", 0, lexeme, <<>>)
JString(chars) == JValue("string", 0, chars, <<>>)
JArray(items) == JValue("array", 0, <<>>, items)
JObject(members) == JValue("object", 0, <<>>, members)

\* the outcome of a parse: st is "ok", "ValueError" or "RecursionError", end
\* the offset just past the value, v the value
Parsed(end, v) == [st |-> "ok", end |-> end, v |-> v]
Failed(exc) == [st |-> exc, end |-> 0, v |-> JNull]

\* json.decoder.WHITESPACE
JsonWhite == {" ", "\t", "\n", "\r"}

Digits == {"0", "1", "2", "3", "4", "5", "6", "7", "8", "9"}

DigitValue(c) ==
    CASE c = "0" -> 0 [] c = "1" -> 1 [] c = "2" -> 2 [] c = "3" -> 3
      [] c = "4" -> 4 [] c = "5" -> 5 [] c = "6" -> 6 [] c = "7" -> 7
      [] c = "8" -> 8 [] c = "9" -> 9

\* json.decoder.BACKSLASH: the character an escape stands for (the backspace
\* has no TLA+ spelling and is written <BS>)
Backslash(c) ==
    CASE c = "\"" -> "\"" [] c = "\\" -> "\\" [] c = "/" -> "/"
      [] c = "b" -> "<BS>" [] c = "f" -> "\f" [] c = "n" -> "\n"
      [] c = "r" -> "\r" [] c = "t" -> "\t"

BackslashChars == {"\"", "\\", "/", "b", "f", "n", "r", "t"}

\* the control characters a strict decoder refuses inside a string
ControlChars == {"\n", "\t", "\r", "\f", "<BS>"}

RECURSIVE JsonSkipWhite(_, _)
JsonSkipWhite(s, i) ==
    IF i <= Len(s) /\ s[i] \in JsonWhite THEN JsonSkipWhite(s, i + 1) ELSE i

\* s[i .. i + Len(w) - 1] = w
Matches(s, i, w) ==
    /\ i + Len(w) - 1 <= Len(s)
    /\ \A k \in 1 .. Len(w) : s[i + k - 1] = w[k]

RECURSIVE py_scanstring(_, _, _)
\* the string whose opening quote precedes offset j; acc holds the characters
\* decoded so far (a \uXXXX escape is kept as its six characters)
py_scanstring(s, j, acc) ==
    IF j > Len(s) THEN Failed("ValueError")
    ELSE IF s[j] = "\"" THEN Parsed(j + 1, JString(acc))
    ELSE IF s[j] = "\\"
      THEN IF j + 1 > Len(s) THEN Failed("ValueError")
           ELSE IF s[j + 1] = "u"
             THEN IF j + 5 <= Len(s) /\ \A k \in j + 2 .. j + 5 : s[k] \in HexDigits
                    THEN py_scanstring(s, j + 6, acc \o SubSeq(s, j, j + 5))
                    ELSE Failed("ValueError")
           ELSE IF s[j + 1] \in BackslashChars
             THEN py_scanstring(s, j + 2, Append(acc, Backslash(s[j + 1])))
           ELSE Failed("ValueError")
    ELSE IF s[j] \in ControlChars THEN Failed("ValueError")
    ELSE py_scanstring(s, j + 1, Append(acc, s[j]))

RECURSIVE DigitRun(_, _)
DigitRun(s, j) ==
    IF j <= Len(s) /\ s[j] \in Digits THEN DigitRun(s, j + 1) ELSE j

RECURSIVE IntValue(_)
IntValue(digits) ==
    IF digits = <<>> THEN 0
    ELSE 10 * IntValue(SubSeq(digits, 1, Len(digits) - 1))
           + DigitValue(digits[Len(digits)])

\* the value of the number lexeme s[i .. e1 - 1], whose integer part is
\* s[d0 .. d1 - 1]
NumberValue(s, i, neg, d0, d1, e1) ==
    IF d1 = d0 THEN Failed("ValueError")
    ELSE IF e1 = d1
      THEN Parsed(d1, JInt(IF neg THEN 0 - IntValue(SubSeq(s, d0, d1 - 1))
                                  ELSE IntValue(SubSeq(s, d0, d1 - 1))))
    ELSE Parsed(e1, JFloat(SubSeq(s, i, e1 - 1)))

\* ([eE][+-]?\d+)? at offset f1: the offset just past it
ExponentEnd(s, f1) ==
    IF f1 + 1 <= Len(s) /\ s[f1] \in {"e", "E"} /\ s[f1 + 1] \in Digits
      THEN DigitRun(s, f1 + 1)
    ELSE IF f1 + 2 <= Len(s) /\ s[f1] \in {"e", "E"} /\ s[f1 + 1] \in {"+", "-"}
            /\ s[f1 + 2] \in Digits
      THEN DigitRun(s, f1 + 2)
    ELSE f1

\* (\.\d+)? at offset d1: the offset just past it
FractionEnd(s, d1) ==
    IF d1 + 1 <= Len(s) /\ s[d1] = "." /\ s[d1 + 1] \in Digits
      THEN DigitRun(s, d1 + 1) ELSE d1

\* (0|[1-9]\d*) at offset d0: the offset just past it
IntegerEnd(s, d0) ==
    IF d0 <= Len(s) /\ s[d0] = "0" THEN d0 + 1 ELSE DigitRun(s, d0)

NumberFrom(s, i, neg, d0, d1) ==
    NumberValue(s, i, neg, d0, d1, ExponentEnd(s, FractionEnd(s, d1)))

\* _match_number: -?(0|[1-9]\d*)(\.\d+)?([eE][+-]?\d+)? at offset i
match_number(s, i) ==
    IF i <= Len(s) /\ s[i] = "-"
      THEN NumberFrom(s, i, TRUE, i + 1, IntegerEnd(s, i + 1))
      ELSE NumberFrom(s, i, FALSE, i, IntegerEnd(s, i))

\* dict[key] = value: a repeated key keeps its place and takes the new value
DictSet(members, key, value) ==
    IF \E k \in 1 .. Len(members) : members[k][1] = key
      THEN [k \in 1 .. Len(members) |->
              IF members[k][1] = key THEN <<key, value>> ELSE members[k]]
      ELSE Append(members, <<key, value>>)

RECURSIVE scan_once(_, _, _, _)
RECURSIVE parse_object(_, _, _, _, _)
RECURSIVE parse_array(_, _, _, _, _)

\* after a member at offset e: "}" ends the object, "," leads to the next key
ObjectNext(s, e, d, limit, got) ==
    IF e > Len(s) THEN Failed("ValueError")
    ELSE IF s[e] = "}" THEN Parsed(e + 1, JObject(got))
    ELSE IF s[e] # "," THEN Failed("ValueError")
    ELSE parse_object(s, JsonSkipWhite(s, e + 1), d, limit, got)

ObjectAfterValue(s, key, val, d, limit, members) ==
    IF val.st # "ok" THEN val
    ELSE ObjectNext(s, JsonSkipWhite(s, val.end), d, limit,
                    DictSet(members, key.v.s, val.v))

\* offset c must hold the ":" between key and value
ObjectColon(s, key, c, d, limit, members) ==
    IF c > Len(s) \/ s[c] # ":" THEN Failed("ValueError")
    ELSE ObjectAfterValue(s, key, scan_once(s, JsonSkipWhite(s, c + 1), d, limit),
                          d, limit, members)

ObjectAfterKey(s, key, d, limit, members) ==
    IF key.st # "ok" THEN key
    ELSE ObjectColon(s, key, JsonSkipWhite(s, key.end), d, limit, members)

\* _parse_object: offset j holds the next key; d containers enclose the members
parse_object(s, j, d, limit, members) ==
    IF j > Len(s) \/ s[j] # "\"" THEN Failed("ValueError")
    ELSE ObjectAfterKey(s, py_scanstring(s, j + 1, <<>>), d, limit, members)

\* after an element at offset e: "]" ends the array, "," leads to the next
ArrayNext(s, e, d, limit, got) ==
    IF e > Len(s) THEN Failed("ValueError")
    ELSE IF s[e] = "]" THEN Parsed(e + 1, JArray(got))
    ELSE IF s[e] # "," THEN Failed("ValueError")
    ELSE parse_array(s, JsonSkipWhite(s, e + 1), d, limit, got)

ArrayAfterValue(s, val, d, limit, items) ==
    IF val.st # "ok" THEN val
    ELSE ArrayNext(s, JsonSkipWhite(s, val.end), d, limit,
                   Append(items, << <<>>, val.v >>))

\* _parse_array: offset j holds the next element
parse_array(s, j, d, limit, items) ==
    ArrayAfterValue(s, scan_once(s, j, d, limit), d, limit, items)

\* the first member of an object whose "{" precedes offset j
ObjectFirst(s, j, d, limit) ==
    IF j <= Len(s) /\ s[j] = "}" THEN Parsed(j + 1, JObject(<<>>))
    ELSE parse_object(s, j, d + 1, limit, <<>>)

\* the first element of an array whose "[" precedes offset j
ArrayFirst(s, j, d, limit) ==
    IF j <= Len(s) /\ s[j] = "]" THEN Parsed(j + 1, JArray(<<>>))
    ELSE parse_array(s, j, d + 1, limit, <<>>)

\* scan_once at offset i, inside d containers: entering one more container
\* than the interpreter's recursion limit allows raises RecursionError
scan_once(s, i, d, limit) ==
    IF i > Len(s) THEN Failed("ValueError")
    ELSE IF s[i] = "\"" THEN py_scanstring(s, i + 1, <<>>)
    ELSE IF s[i] = "{"
      THEN IF d >= limit THEN Failed("RecursionError")
           ELSE ObjectFirst(s, JsonSkipWhite(s, i + 1), d, limit)
    ELSE IF s[i] = "["
      THEN IF d >= limit THEN Failed("RecursionError")
           ELSE ArrayFirst(s, JsonSkipWhite(s, i + 1), d, limit)
    ELSE IF Matches(s, i, <<"n", "u", "l", "l">>) THEN Parsed(i + 4, JNull)
    ELSE IF Matches(s, i, <<"t", "r", "u", "e">>) THEN Parsed(i + 4, JTrue)
    ELSE IF Matches(s, i, <<"f", "a", "l", "s", "e">>) THEN Parsed(i + 5, JFalse)
    ELSE IF Matches(s, i, <<"N", "a", "N">>)
      THEN Parsed(i + 3, JFloat(<<"N", "a", "N">>))
    ELSE IF Matches(s, i, <<"I", "n", "f", "i", "n", "i", "t", "y">>)
      THEN Parsed(i + 8, JFloat(SubSeq(s, i, i + 7)))
    ELSE IF Matches(s, i, <<"-", "I", "n", "f", "i", "n", "i", "t", "y">>)
      THEN Parsed(i + 9, JFloat(SubSeq(s, i, i + 8)))
    ELSE match_number(s, i)

\* decode: the value must be followed by nothing but whitespace
WholeText(s, r) ==
    IF r.st # "ok" THEN r
    ELSE IF JsonSkipWhite(s, r.end) <= Len(s) THEN Failed("ValueError")
    ELSE r

\* json.loads(s) with `limit` stack frames left for nested containers
json_loads(s, limit) == WholeText(s, scan_once(s, JsonSkipWhite(s, 1), 0, limit))

\* try: json.loads(json_str); return True / except ValueError: return False;
\* any other exception leaves the function
ValidOutcome(r) ==
    IF r.st = "ok" THEN [raised |-> "none", ret |-> TRUE]
    ELSE IF r.st = "ValueError" THEN [raised |-> "none", ret |-> FALSE]
    ELSE [raised |-> r.st, ret |-> FALSE]

\* is_valid_json: [raised |-> the exception or "none", ret |-> the boolean]
is_valid_json(s, limit) == ValidOutcome(json_loads(s, limit))

----------------------------------------------------------------------------
(* extract_top_level_json: normalization, replace_undefined, the filter.   *)

RECURSIVE ReplaceFirst(_, _, _)
RECURSIVE Replace(_, _, _)

\* mutant: only the first occurrence is replaced
ReplaceFirst(s, old, new) ==
    IF s = <<>> THEN <<>>
    ELSE IF Matches(s, 1, old) THEN new \o SubSeq(s, Len(old) + 1, Len(s))
    ELSE <<s[1]>> \o ReplaceFirst(SubSeq(s, 2, Len(s)), old, new)

\* str.replace(old, new): every occurrence of old, leftmost first, the search
\* resuming after the occurrence replaced
Replace(s, old, new) ==
    IF s = <<>> THEN <<>>
    ELSE IF Matches(s, 1, old)
      THEN new \o Replace(SubSeq(s, Len(old) + 1, Len(s)), old, new)
    ELSE <<s[1]>> \o Replace(SubSeq(s, 2, Len(s)), old, new)

\* candidate.replace("\\{", "{").replace("\\}", "}").replace("\\_", "_")
Normalize(c) ==
    Replace(Replace(Replace(c, <<"\\", "{">>, <<"{">>),
                    <<"\\", "}">>, <<"}">>),
            <<"\\", "_">>, <<"_">>)

Letters ==
    {"a", "b", "c", "d", "e", "f", "g", "h", "i", "j", "k", "l", "m",
     "n", "o", "p", "q", "r", "s", "t", "u", "v", "w", "x", "y", "z",
     "A", "B", "C", "D", "E", "F", "G", "H", "I", "J", "K", "L", "M",
     "N", "O", "P", "Q", "R", "S", "T", "U", "V", "W", "X", "Y", "Z"}

\* \s of a str pattern (the characters of it that TLA+ can spell)
RegexSpace == {" ", "\t", "\n", "\r", "\f"}

\* [a-zA-Z_] and [a-zA-Z_0-9\-]
WordStart == Letters \cup {"_"}
WordNoHyphen == Letters \cup Digits \cup {"_"}
WordChars == Letters \cup Digits \cup {"_", "-"}

\* the default undefined_placeholder, and the replacement f": {placeholder}"
UndefinedPlaceholder ==
    <<"\"", "<", "u", "n", "d", "e", "f", "i", "n", "e", "d", ">", "\"">>
Replacement == <<":", " ">> \o UndefinedPlaceholder

RECURSIVE ClassRun(_, _, _)
\* the greedy run of characters of cls from offset j: the offset just past it
ClassRun(s, j, cls) ==
    IF j <= Len(s) /\ s[j] \in cls THEN ClassRun(s, j + 1, cls) ELSE j

\* mutant: the bareword class lacks the hyphen
UndefinedMatchNoHyphen(s, i) ==
    IF i <= Len(s) /\ s[i] = ":"
      THEN LET j == ClassRun(s, i + 1, RegexSpace)
           IN  IF j <= Len(s) /\ s[j] \in WordStart
                 THEN ClassRun(s, j + 1, WordNoHyphen) ELSE 0
      ELSE 0

\* r":\s*([a-zA-Z_][a-zA-Z_0-9\-]*)" matched at offset i
UndefinedMatch(s, i) ==
    IF i <= Len(s) /\ s[i] = ":"
      THEN LET j == ClassRun(s, i + 1, RegexSpace)
           IN  IF j <= Len(s) /\ s[j] \in WordStart
                 THEN ClassRun(s, j + 1, WordChars) ELSE 0
      ELSE 0

RECURSIVE Sub(_, _)
\* re.sub from offset i: a character no match starts at is copied
Sub(s, i) ==
    IF i > Len(s) THEN <<>>
    ELSE IF UndefinedMatch(s, i) # 0
      THEN Replacement \o Sub(s, UndefinedMatch(s, i))
    ELSE <<s[i]>> \o Sub(s, i + 1)

replace_undefined(s) == Sub(s, 1)

\* mutant: the valid candidates are collected in reverse
FilterStepReversed(cand, v, rest) ==
    IF v.raised # "none" THEN [raised |-> v.raised, ret |-> <<>>]
    ELSE IF rest.raised # "none" THEN rest
    ELSE [raised |-> "none",
          ret |-> IF v.ret THEN rest.ret \o <<cand>> ELSE rest.ret]

\* one candidate of the comprehension: v is is_valid_json of it, rest the
\* outcome for the candidates after it
FilterStep(cand, v, rest) ==
    IF v.raised # "none" THEN [raised |-> v.raised, ret |-> <<>>]
    ELSE IF rest.raised # "none" THEN rest
    ELSE [raised |-> "none",
          ret |-> IF v.ret THEN <<cand>> \o rest.ret ELSE rest.ret]

RECURSIVE FilterValid(_, _, _)
\* [candidate for candidate in candidates if is_valid_json(candidate)] from
\* index k: an exception of is_valid_json ends the comprehension
FilterValid(cands, k, limit) ==
    IF k > Len(cands) THEN [raised |-> "none", ret |-> <<>>]
    ELSE FilterStep(cands[k], is_valid_json(cands[k], limit),
                    FilterValid(cands, k + 1, limit))

\* the outcome of extract_top_level_json, with its local variables
ExtractResult(jc, nc, c, top) ==
    [raised |-> top.raised, ret |-> top.ret, json_candidates |-> jc,
     normalized_candidates |-> nc, candidates |-> c]

\* top_level_jsons = [candidate for candidate in candidates if ...]
ExtractFiltered(jc, nc, c, limit) == ExtractResult(jc, nc, c, FilterValid(c, 1, limit))

\* candidates = [replace_undefined(candidate) for candidate in normalized_candidates]
ExtractRepaired(jc, nc, limit) ==
    ExtractFiltered(jc, nc, [k \in 1 .. Len(nc) |-> replace_undefined(nc[k])], limit)

\* normalized_candidates = [... for candidate in json_candidates]
ExtractNormalized(jc, limit) == ExtractRepaired(jc, [k \in 1 .. Len(jc) |-> Normalize(jc[k])], limit)

\* json_candidates = get_json_candidates(s)
extract_top_level_json(s, limit) == ExtractNormalized(get_json_candidates(s), limit)

----------------------------------------------------------------------------
(* top_level_json_field                                                    *)

HasKey(members, f) == \E k \in 1 .. Len(members) : members[k][1] = f
Lookup(members, f) ==
    members[CHOOSE k \in 1 .. Len(members) : members[k][1] = f][2]

\* f in s, for strings
IsSubstring(f, s) == \E i \in 1 .. Len(s) + 1 : Matches(s, i, f)

\* the outcome of "f in json_data": "yes", "no" or "TypeError"
Contains(data, f) ==
    CASE data.t = "object" -> IF HasKey(data.m, f) THEN "yes" ELSE "no"
      [] data.t = "array" ->
           IF \E k \in 1 .. Len(data.m) : data.m[k][2] = JString(f)
             THEN "yes" ELSE "no"
      [] data.t = "string" -> IF IsSubstring(f, data.s) THEN "yes" ELSE "no"
      [] OTHER -> "TypeError"

\* the value "" that is returned when the field is not found
EmptyString == JString(<<>>)

FieldOutcome(exc, value, x) == [raised |-> exc, ret |-> value, extract |-> x]

\* mutant: a later object with the field overrides an earlier one
FieldStepLast(data, f, rest) ==
    IF rest.ret # EmptyString \/ data.st # "ok" \/ Contains(data.v, f) # "yes"
      THEN rest
      ELSE [raised |-> "none", ret |-> Lookup(data.v.m, f)]

\* mutant: None, not "", when an object lacks the field
FieldStepNone(data, f, rest) ==
    IF data.st = "ok" /\ Contains(data.v, f) = "yes"
      THEN [raised |-> "none", ret |-> Lookup(data.v.m, f)]
      ELSE [raised |-> "none", ret |-> JNull]

\* one pass of the loop: data is json.loads(j), rest the outcome of the passes
\* after it; if f in json_data: return json_data[f]
FieldStep(data, f, rest) ==
    IF data.st # "ok" THEN [raised |-> data.st, ret |-> EmptyString]
    ELSE IF Contains(data.v, f) = "TypeError"
      THEN [raised |-> "TypeError", ret |-> EmptyString]
    ELSE IF Contains(data.v, f) = "no" THEN rest
    ELSE IF data.v.t = "object"
      THEN [raised |-> "none", ret |-> Lookup(data.v.m, f)]
    ELSE [raised |-> "TypeError", ret |-> EmptyString]

RECURSIVE FieldLoop(_, _, _, _)
\* for j in jsons: ...; after the loop: return ""
FieldLoop(found, k, f, limit) ==
    IF k > Len(found) THEN [raised |-> "none", ret |-> EmptyString]
    ELSE FieldStep(json_loads(found[k], limit), f, FieldLoop(found, k + 1, f, limit))

\* the part of top_level_json_field after jsons = extract_top_level_json(s)
FieldFrom(x, loop) ==
    IF x.raised # "none" THEN FieldOutcome(x.raised, EmptyString, x)
    ELSE IF Len(x.ret) = 0 THEN FieldOutcome("none", EmptyString, x)
    ELSE FieldOutcome(loop.raised, loop.ret, x)

FieldOf(x, f, limit) ==
    FieldFrom(x, FieldLoop(IF x.raised = "none" THEN x.ret ELSE <<>>, 1, f, limit))

\* top_level_json_field: the outcome, and that of extract_top_level_json
top_level_json_field(s, f, limit) == FieldOf(extract_top_level_json(s, limit), f, limit)

----------------------------------------------------------------------------
(* The calls.  A caller builds the arguments, then calls one function; the  *)
(* locals of extract_top_level_json are kept with the result.              *)

Unset == <<>>

InitWith(frames) ==
    /\ text = <<>>
    /\ nfrag = 0
    /\ field = <<>>
    /\ budget = frames
    /\ pc = "input"
    /\ op = "none"
    /\ spans = Unset
    /\ candidates = Unset
    /\ normalized = Unset
    /\ repaired = Unset
    /\ jsons = Unset
    /\ ret = Unset
    /\ raised = "none"

\* a fresh interpreter: sys.getrecursionlimit() is 1000
Init == InitWith(1000)

\* texts that nest deeper than the recursion limit, both scaled down
InitDeep == InitWith(StackFrames)

\* the caller extends the text by one fragment
Type(frags, max) ==
    /\ pc = "input"
    /\ nfrag < max
    /\ \E w \in frags : text' = text \o w
    /\ nfrag' = nfrag + 1
    /\ UNCHANGED <<field, budget, pc, op, spans, candidates, normalized,
                   repaired, jsons, ret, raised>>

\* the call returns, or an exception leaves it
Return(r) ==
    /\ ret' = r.ret
    /\ raised' = r.raised

\* the locals of extract_top_level_json when it ends
Locals(x) ==
    /\ candidates' = x.json_candidates
    /\ normalized' = x.normalized_candidates
    /\ repaired' = x.candidates
    /\ jsons' = x.ret

ReturnExtract(x) ==
    /\ Locals(x)
    /\ Return(x)

ReturnField(r) ==
    /\ Locals(r.extract)
    /\ Return(r)

CallGetJsonCandidates ==
    /\ pc = "input"
    /\ pc' = "done"
    /\ op' = "get_json_candidates"
    /\ spans' = ScanString(text, 1)
    /\ candidates' = get_json_candidates(text)
    /\ ret' = get_json_candidates(text)
    /\ UNCHANGED <<text, nfrag, field, budget, normalized, repaired, jsons, raised>>

CallIsValidJson ==
    /\ pc = "input"
    /\ pc' = "done"
    /\ op' = "is_valid_json"
    /\ Return(is_valid_json(text, budget))
    /\ UNCHANGED <<text, nfrag, field, budget, spans, candidates, normalized,
                   repaired, jsons>>

CallNormalize ==
    /\ pc = "input"
    /\ pc' = "done"
    /\ op' = "normalize"
    /\ ret' = Normalize(text)
    /\ UNCHANGED <<text, nfrag, field, budget, spans, candidates, normalized,
                   repaired, jsons, raised>>

\* the normalization applied to its own result; normalized keeps the first result
CallNormalizeAgain ==
    /\ pc = "done"
    /\ op = "normalize"
    /\ pc' = "again"
    /\ normalized' = <<ret>>
    /\ ret' = Normalize(ret)
    /\ UNCHANGED <<text, nfrag, field, budget, op, spans, candidates, repaired,
                   jsons, raised>>

CallReplaceUndefined ==
    /\ pc = "input"
    /\ pc' = "done"
    /\ op' = "replace_undefined"
    /\ ret' = replace_undefined(text)
    /\ UNCHANGED <<text, nfrag, field, budget, spans, candidates, normalized,
                   repaired, jsons, raised>>

CallExtractTopLevelJson ==
    /\ pc = "input"
    /\ pc' = "done"
    /\ op' = "extract_top_level_json"
    /\ spans' = ScanString(text, 1)
    /\ ReturnExtract(extract_top_level_json(text, budget))
    /\ UNCHANGED <<text, nfrag, field, budget>>

CallTopLevelJsonField(fields) ==
    /\ pc = "input"
    /\ pc' = "done"
    /\ op' = "top_level_json_field"
    /\ \E f \in fields :
         /\ field' = f
         /\ ReturnField(top_level_json_field(text, f, budget))
    /\ spans' = ScanString(text, 1)
    /\ UNCHANGED <<text, nfrag, budget>>

----------------------------------------------------------------------------
(* Fragments of the texts.                                                 *)

LBrace == <<"{">>
RBrace == <<"}">>
DQuote == <<"\"">>
SQuote == <<"'">>
Blank == <<" ">>
Colon == <<":">>
BackslashChar == <<"\\">>
KeyA == <<"{", "\"", "a", "\"", ":">>                       \* {"a":
KeyB == <<"{", "\"", "b", "\"", ":">>                       \* {"b":
ObjA1 == KeyA \o <<"1", "}">>                               \* {"a":1}
ObjA2 == KeyA \o <<"2", "}">>                               \* {"a":2}
ObjB2 == KeyB \o <<"2", "}">>                               \* {"b":2}
WordTrue == <<"t", "r", "u", "e">>
WordDoNotKnow == <<"D", "O", "-", "N", "O", "T", "-", "K", "N", "O", "W">>
KeyRent == <<"{", "\"", "r", "e", "n", "t", "\"", ":">>     \* {"rent":
Noise == <<" ", "n", "o", "i", "s", "e", " ">>

----------------------------------------------------------------------------
(* Scanning: texts of braces, quotes and blanks around objects.            *)

ScanFrags ==
    { LBrace, RBrace, DQuote, SQuote, Blank,
      KeyA \o Blank,                                        \* {"a":_
      KeyB \o <<" ", "1", "}">> }                           \* {"b": 1}

TypeScan == Type(ScanFrags, MaxScanFrags)

NextScan == TypeScan \/ CallGetJsonCandidates

SpecScan == Init /\ [][NextScan]_vars

----------------------------------------------------------------------------
(* Normalization: strings of backslashes and the characters they escape.   *)

NormFrags == { BackslashChar, LBrace, RBrace, <<"_">>, <<"a">> }

TypeNorm == Type(NormFrags, MaxNormLen)

NextNorm == TypeNorm \/ CallNormalize \/ CallNormalizeAgain

SpecNorm == Init /\ [][NextNorm]_vars

----------------------------------------------------------------------------
(* Repair: colons, blanks and barewords, inside and outside an object.     *)

RepairFrags ==
    { KeyRent, RBrace, Colon, Blank, WordDoNotKnow, WordTrue, <<"1">>, <<"_">> }

RepairFields == { <<"r", "e", "n", "t">> }

TypeRepair == Type(RepairFrags, MaxRepairFrags)

CallFieldRepair == CallTopLevelJsonField(RepairFields)

NextRepair == TypeRepair \/ CallReplaceUndefined \/ CallFieldRepair

SpecRepair == Init /\ [][NextRepair]_vars

----------------------------------------------------------------------------
(* Extraction: objects, prose, stray braces, escapes, values to repair.    *)

ExtractFrags ==
    { ObjA1, ObjB2, Noise, KeyA, WordTrue, RBrace, LBrace, BackslashChar,
      <<"\"", "x", ":", "y", "\"">> }                       \* "x:y"

TypeExtract == Type(ExtractFrags, MaxExtractFrags)

NextExtract == TypeExtract \/ CallExtractTopLevelJson

SpecExtract == Init /\ [][NextExtract]_vars

----------------------------------------------------------------------------
(* Quoting: an object whose string value holds braces, quotes, escapes.    *)

QuoteFrags ==
    { <<"{", "\"", "t", "\"", ":", "\"", "a">>,             \* {"t":"a
      <<"b", "\"", "}">>,                                   \* b"}
      LBrace, RBrace, Blank, SQuote, Colon,
      <<"\\", "\"">>,                                       \* \"
      <<"\\", "\\">> }                                      \* \\

TypeQuote == Type(QuoteFrags, MaxQuoteFrags)

NextQuote == TypeQuote \/ CallExtractTopLevelJson

SpecQuote == Init /\ [][NextQuote]_vars

----------------------------------------------------------------------------
(* Field projection: several objects, with the field at the top level,     *)
(* nested, repeated, bound to the empty string, or in an invalid object.   *)

FieldFrags ==
    { ObjA1, ObjA2, KeyB, RBrace,
      KeyA \o <<"\"", "\"", "}">>,                          \* {"a":""}
      KeyA \o <<"1", ",", "\"", "a", "\"", ":", "3", "}">>, \* {"a":1,"a":3}
      <<"{", "a", "}">> }                                   \* {a}

FieldNames == { <<"a">>, <<"b">>, <<"c">> }

TypeField == Type(FieldFrags, MaxFieldFrags)

CallField == CallTopLevelJsonField(FieldNames)

NextField == TypeField \/ CallField

SpecField == Init /\ [][NextField]_vars

----------------------------------------------------------------------------
(* Deep nesting: objects and arrays nested beyond the recursion limit.     *)

DeepFrags == { KeyA, <<"[">>, <<"]">>, RBrace, <<"1">>, Blank }

DeepFields == { <<"a">> }

TypeDeep == Type(DeepFrags, MaxDeepFrags)

CallFieldDeep == CallTopLevelJsonField(DeepFields)

NextDeep ==
    TypeDeep \/ CallIsValidJson \/ CallExtractTopLevelJson \/ CallFieldDeep

SpecDeep == InitDeep /\ [][NextDeep]_vars

----------------------------------------------------------------------------
(* The scanner's spans.                                                    *)

Called(f) == pc = "done" /\ op = f

RECURSIVE ClosingBrace(_, _, _)
\* the offset of the "}" that brings the brace depth, d at offset j, back to 0;
\* braces inside a quoted string do not count, a quoted string being what the
\* scanner takes for one; 0 when the depth never comes back to 0
ClosingBrace(s, j, d) ==
    IF j > Len(s) THEN 0
    ELSE IF s[j] \in WhiteChars THEN ClosingBrace(s, j + 1, d)
    ELSE IF QuotedEnd(s, j) # 0 THEN ClosingBrace(s, QuotedEnd(s, j), d)
    ELSE IF s[j] = "{" THEN ClosingBrace(s, j + 1, d + 1)
    ELSE IF s[j] = "}" THEN IF d = 1 THEN j ELSE ClosingBrace(s, j + 1, d - 1)
    ELSE ClosingBrace(s, j + 1, d)

RECURSIVE StringClose(_, _)
\* the offset of the unescaped double quote that closes the string whose
\* content starts at offset j, or 0
StringClose(s, j) ==
    IF j > Len(s) THEN 0
    ELSE IF s[j] = "\\" THEN StringClose(s, j + 2)
    ELSE IF s[j] = "\"" THEN j
    ELSE StringClose(s, j + 1)

RECURSIVE JsonClosingBrace(_, _, _)
\* as ClosingBrace, a quoted string being a JSON string: it opens at a double
\* quote and closes at the next unescaped double quote
JsonClosingBrace(s, j, d) ==
    IF j > Len(s) THEN 0
    ELSE IF s[j] = "\"" /\ StringClose(s, j + 1) # 0
      THEN JsonClosingBrace(s, StringClose(s, j + 1) + 1, d)
    ELSE IF s[j] = "{" THEN JsonClosingBrace(s, j + 1, d + 1)
    ELSE IF s[j] = "}" THEN IF d = 1 THEN j ELSE JsonClosingBrace(s, j + 1, d - 1)
    ELSE JsonClosingBrace(s, j + 1, d)

NestedExample == KeyA \o Blank \o KeyB \o <<" ", "1", "}">> \o RBrace  \* {"a": {"b": 1}}

RECURSIVE OpenStart(_, _, _, _, _)
\* the depth scan of a text from offset i at depth d: inStr tells whether a
\* double-quoted string is open, start is the offset of the "{" that took the
\* depth from 0 to 1; the result is that offset when the text ends at a depth
\* above 0, and 0 when it ends at depth 0
OpenStart(s, i, d, inStr, start) ==
    IF i > Len(s) THEN (IF d > 0 THEN start ELSE 0)
    ELSE IF inStr
      THEN OpenStart(s, i + 1, d, ~(s[i] = "\"" /\ (i = 1 \/ s[i - 1] # "\\")), start)
    ELSE IF s[i] = "\"" THEN OpenStart(s, i + 1, d, TRUE, start)
    ELSE IF s[i] = "{" THEN OpenStart(s, i + 1, d + 1, FALSE, IF d = 0 THEN i ELSE start)
    ELSE IF s[i] = "}" /\ d > 0 THEN OpenStart(s, i + 1, d - 1, FALSE, start)
    ELSE OpenStart(s, i + 1, d, FALSE, start)

\* the unmatched top-level opening brace of the text, or 0
Unmatched(s) == OpenStart(s, 1, 0, FALSE, 0)

QuoteFree(s) == \A i \in 1 .. Len(s) : s[i] \notin {"\"", "'"}

----------------------------------------------------------------------------
(* Normalization.                                                          *)

\* a backslash immediately precedes one of the escape sequences \{ \} \_
EscapedEscape(s) ==
    \E i \in 1 .. Len(s) :
      /\ i + 2 <= Len(s)
      /\ s[i] = "\\"
      /\ s[i + 1] = "\\"
      /\ s[i + 2] \in {"{", "}", "_"}

\* C8 as stated: normalizing twice gives what normalizing once gives.
NormalizeIdempotent == pc = "again" => ret = normalized[1]

\* C8 amended: normalizing twice gives what normalizing once gives exactly for
\* the strings in which no backslash immediately precedes \{, \} or \_.
NormalizeIdempotentUnlessEscaped ==
    pc = "again" => (ret = normalized[1] <=> ~EscapedEscape(text))

\* an escape was removed, and a second normalization changed nothing
NormalizeWitness ==
    /\ pc = "again"
    /\ text = <<"\\", "{", "a", "\\", "_">>
    /\ normalized = << <<"{", "a", "_">> >>
    /\ ret = <<"{", "a", "_">>

----------------------------------------------------------------------------
(* Bareword repair.                                                        *)

BarewordStart == Letters \cup {"_"}
BarewordChars == Letters \cup Digits \cup {"_", "-"}
Whitespace == {" ", "\t", "\n", "\r", "\f"}

\* offset j holds the first character of a bareword that follows the colon at
\* offset i after nothing but whitespace
WordAfterColon(s, i, j) ==
    /\ s[i] = ":"
    /\ i < j
    /\ j <= Len(s)
    /\ s[j] \in BarewordStart
    /\ \A k \in i + 1 .. j - 1 : s[k] \in Whitespace

ColonWordAt(s, i) == \E j \in i + 1 .. Len(s) : WordAfterColon(s, i, j)

\* offset p lies in the occurrence that starts with the colon at offset i
InOccurrence(s, i, p) ==
    \E j \in i + 1 .. Len(s) :
      /\ WordAfterColon(s, i, j)
      /\ i <= p
      /\ \A k \in j .. p : s[k] \in BarewordChars

RECURSIVE Rewritten(_, _)
\* the text from offset p on with every occurrence replaced by the colon, a
\* blank and the quoted placeholder, and every other character kept
Rewritten(s, p) ==
    IF p > Len(s) THEN <<>>
    ELSE IF ColonWordAt(s, p)
      THEN <<":", " ", "\"", "<", "u", "n", "d", "e", "f", "i", "n", "e", "d", ">", "\"">>
             \o Rewritten(s, p + 1)
    ELSE IF \E i \in 1 .. p - 1 : InOccurrence(s, i, p) THEN Rewritten(s, p + 1)
    ELSE <<s[p]>> \o Rewritten(s, p + 1)

RentExample == KeyRent \o Blank \o WordDoNotKnow \o RBrace   \* {"rent": DO-NOT-KNOW}
RentRepaired ==                                              \* {"rent": "<undefined>"}
    KeyRent \o <<" ", "\"", "<", "u", "n", "d", "e", "f", "i", "n", "e", "d", ">", "\"", "}">>
UndefinedString == JString(<<"<", "u", "n", "d", "e", "f", "i", "n", "e", "d", ">">>)

\* C3: replace_undefined rewrites every colon, optional whitespace and bareword
\* (true, false and null included) to a colon and the quoted placeholder and
\* keeps every other character; {"rent": DO-NOT-KNOW} is extracted as the one
\* element {"rent": "<undefined>"} and its field rent is the string <undefined>.
BarewordRepair ==
    /\ Called("replace_undefined") => ret = Rewritten(text, 1)
    /\ (Called("top_level_json_field") /\ text = RentExample) =>
         /\ raised = "none"
         /\ jsons = <<RentRepaired>>
         /\ ret = UndefinedString

\* a text with the literal true and a hyphenated bareword was repaired
BarewordWitness ==
    /\ Called("replace_undefined")
    /\ text = Colon \o WordTrue \o Colon \o WordDoNotKnow
    /\ ret = Replacement \o Replacement

----------------------------------------------------------------------------
(* The filter of extract_top_level_json.                                   *)

\* the call returned: no exception left it
Returned(f) == Called(f) /\ raised = "none"

IsValid(c) == is_valid_json(c, budget).ret

TwoObjects == ObjA1 \o Noise \o ObjB2                    \* {"a":1} noise {"b":2}

\* C4: the result of extract_top_level_json is the normalized and repaired
\* candidates for which is_valid_json is true, each once and in the order of
\* their spans in the text; {"a":1} noise {"b":2} gives {"a":1} then {"b":2}.
FilterContract ==
    Returned("extract_top_level_json") =>
      /\ candidates = get_json_candidates(text)
      /\ Len(repaired) = Len(candidates)
      /\ \A k \in 1 .. Len(candidates) :
           repaired[k] = replace_undefined(Normalize(candidates[k]))
      /\ ret = SelectSeq(repaired, IsValid)
      /\ (text = TwoObjects => ret = <<ObjA1, ObjB2>>)

\* of three candidates the invalid one in the middle was dropped
FilterWitness ==
    /\ Returned("extract_top_level_json")
    /\ text = ObjA1 \o KeyA \o RBrace \o ObjB2             \* {"a":1}{"a":}{"b":2}
    /\ repaired = <<ObjA1, KeyA \o RBrace, ObjB2>>
    /\ ret = <<ObjA1, ObjB2>>

RECURSIVE JsonEq(_, _)
\* two JSON values are the same value: the members of an object in any order
JsonEq(a, b) ==
    /\ a.t = b.t
    /\ a.n = b.n
    /\ a.s = b.s
    /\ Len(a.m) = Len(b.m)
    /\ IF a.t = "object"
         THEN \A k \in 1 .. Len(a.m) :
                /\ HasKey(b.m, a.m[k][1])
                /\ JsonEq(a.m[k][2], Lookup(b.m, a.m[k][1]))
         ELSE \A k \in 1 .. Len(a.m) : JsonEq(a.m[k][2], b.m[k][2])

\* s[b .. e] is a JSON object
ObjectAt(s, b, e) ==
    /\ s[b] = "{"
    /\ s[e] = "}"
    /\ json_loads(SubSeq(s, b, e), budget).st = "ok"

\* some element of the result parses to the value of the JSON text j
Extracted(found, j) ==
    \E k \in 1 .. Len(found) :
      JsonEq(json_loads(found[k], budget).v, json_loads(j, budget).v)

\* C1: for every JSON object J and every text around it, the result of
\* extract_top_level_json(prose + J + prose) has an element that parses to
\* the value of J.
PassThrough ==
    Returned("extract_top_level_json") =>
      \A b \in 1 .. Len(text) : \A e \in b + 1 .. Len(text) :
        ObjectAt(text, b, e) => Extracted(ret, SubSeq(text, b, e))

----------------------------------------------------------------------------
(* Braces inside quoted strings.                                           *)

\* a member of the object holds a string with a brace in it
BraceInString(v) ==
    \E k \in 1 .. Len(v.m) :
      /\ v.m[k][2].t = "string"
      /\ \E i \in 1 .. Len(v.m[k][2].s) : v.m[k][2].s[i] \in {"{", "}"}

\* the text has \{, \} or \_ in it
EscapeArtifact(s) ==
    \E i \in 1 .. Len(s) - 1 : s[i] = "\\" /\ s[i + 1] \in {"{", "}", "_"}

\* the text is a JSON object with a brace in a string value, without a colon
\* before a bareword and without \{, \} or \_
OpaqueCase(s) ==
    /\ s # <<>>
    /\ ObjectAt(s, 1, Len(s))
    /\ BraceInString(json_loads(s, budget).v)
    /\ ~ \E i \in 1 .. Len(s) : ColonWordAt(s, i)
    /\ ~ EscapeArtifact(s)

BraceExample ==                                             \* {"t":"a{b"}
    <<"{", "\"", "t", "\"", ":", "\"", "a", "{", "b", "\"", "}">>

----------------------------------------------------------------------------
(* top_level_json_field.                                                   *)

\* the indices of the extracted objects that have the field at their top level
Holders(found, f) ==
    { k \in 1 .. Len(found) : HasKey(json_loads(found[k], budget).v.m, f) }

Bound(j, f) == Lookup(json_loads(j, budget).v.m, f)

First(S) == CHOOSE k \in S : \A m \in S : k <= m

\* C2: when some element of extract_top_level_json(s) has f as a key of its
\* outermost object, top_level_json_field(s, f) returns the value of f in the
\* first such element; an element with f only in a nested object is passed over.
FirstMatch ==
    (Returned("top_level_json_field") /\ Holders(jsons, field) # {}) =>
      ret = Bound(jsons[First(Holders(jsons, field))], field)

\* the first object has "a" only in a nested object, the second at its top level
FirstMatchWitness ==
    /\ Returned("top_level_json_field")
    /\ text = KeyB \o ObjA1 \o RBrace \o ObjA2           \* {"b":{"a":1}}{"a":2}
    /\ field = <<"a">>
    /\ Holders(jsons, field) = {2}
    /\ ret = JInt(2)

\* C6: top_level_json_field(s, f) returns the empty string when
\* extract_top_level_json(s) is empty or none of its elements has f as a
\* top-level key, and a value other than the empty string only when some
\* element binds f at its top level to that value.
AbsentSentinel ==
    Returned("top_level_json_field") =>
      /\ jsons = <<>> => ret = EmptyString
      /\ Holders(jsons, field) = {} => ret = EmptyString
      /\ ret # EmptyString =>
           \E k \in Holders(jsons, field) : Bound(jsons[k], field) = ret

\* objects were extracted, none with the field "c" at its top level
AbsentWitness ==
    /\ Returned("top_level_json_field")
    /\ text = KeyB \o ObjA1 \o RBrace \o ObjA2
    /\ field = <<"c">>
    /\ Len(jsons) = 2
    /\ ret = EmptyString

----------------------------------------------------------------------------
(* Exceptions.                                                             *)

\* C5: is_valid_json, extract_top_level_json and top_level_json_field return
\* a value for every text: no exception leaves them.
Totality ==
    (pc = "done" /\ op \in {"is_valid_json", "extract_top_level_json",
                            "top_level_json_field"}) =>
      raised = "none"

====
